---- MODULE Spec2Model ----
(***************************************************************************)
(* Model of src/fetch_timestamps_app.py: the Streamlit script that turns   *)
(* an uploaded Wingtra flight JSON file into a table of image names with   *)
(* their UTC and local capture times (generate_pdf) and offers it as a     *)
(* PDF download.                                                           *)
(*                                                                         *)
(* Python strings are sequences of one-character strings.  Python ints     *)
(* are unbounded: a parsed timestamp is kept as a sign and a sequence of   *)
(* decimal digits, and is only turned into day and millisecond-of-day      *)
(* numbers by long division.                                               *)
(***************************************************************************)
EXTENDS Integers, Sequences

VARIABLES pc, req, uploaded_file, json_data, filename, parts, mission_name,
          lat, lon, tz_str, idx, it, img, utc, local, stmp, table_data,
          download, err, lookups

vars == <<pc, req, uploaded_file, json_data, filename, parts, mission_name,
          lat, lon, tz_str, idx, it, img, utc, local, stmp, table_data,
          download, err, lookups>>

(***************************************************************************)
(* Bounds of the model.                                                    *)
(***************************************************************************)
MaxEntries == 2
MaxRequests == 2
MaxTokens == 4

None == "None"

(***************************************************************************)
(* String helpers (str slicing, str.startswith, concatenation).            *)
(***************************************************************************)
Take(s, n) == SubSeq(s, 1, n)

Drop(s, n) == SubSeq(s, n + 1, Len(s))

StartsWith(s, p) == Len(s) >= Len(p) /\ Take(s, Len(p)) = p

RECURSIVE Concat(_)
Concat(ss) == IF ss = <<>> THEN <<>> ELSE Head(ss) \o Concat(Tail(ss))

RECURSIVE Repeat(_, _)
Repeat(c, n) == IF n <= 0 THEN <<>> ELSE <<c>> \o Repeat(c, n - 1)

\* str.replace(old, ''): non-overlapping occurrences, scanned left to right, once
RECURSIVE Remove(_, _)
Remove(s, old) ==
    IF s = <<>> THEN <<>>
    ELSE IF StartsWith(s, old) THEN Remove(Drop(s, Len(old)), old)
    ELSE <<Head(s)>> \o Remove(Tail(s), old)

\* str.split(sep): the list of the pieces between non-overlapping separators
RECURSIVE SplitFrom(_, _, _)
SplitFrom(s, sep, cur) ==
    IF s = <<>> THEN <<cur>>
    ELSE IF StartsWith(s, sep) THEN <<cur>> \o SplitFrom(Drop(s, Len(sep)), sep, <<>>)
    ELSE SplitFrom(Tail(s), sep, Append(cur, Head(s)))

Split(s, sep) == SplitFrom(s, sep, <<>>)

(***************************************************************************)
(* Mission name from the uploaded file's name.                             *)
(***************************************************************************)
JsonExt == <<".", "j", "s", "o", "n">>

FlightSep == <<" ", "F", "l", "i", "g", "h", "t", " ">>

FlightJoin == <<"_", "F", "l", "i", "g", "h", "t", "_">>

StripJson(name) == Remove(name, JsonExt)

FlightParts(fname) == Split(fname, FlightSep)

\* the slip of joining the first two pieces whenever there are at least two
MissionNameFirstTwo(ps) ==
    IF Len(ps) >= 2 THEN ps[1] \o FlightJoin \o ps[2] ELSE ps[1]

MissionName(ps) ==
    IF Len(ps) = 2 THEN ps[1] \o FlightJoin \o ps[2] ELSE ps[1]

(***************************************************************************)
(* int(str): surrounding blanks stripped, an optional sign, then decimal   *)
(* digits with single underscores allowed between digits.                  *)
(***************************************************************************)
DigitChars == <<"0", "1", "2", "3", "4", "5", "6", "7", "8", "9">>

IsDigit(c) == \E d \in 1..10 : DigitChars[d] = c

DigitVal(c) == (CHOOSE d \in 1..10 : DigitChars[d] = c) - 1

RECURSIVE LStrip(_)
LStrip(s) == IF s # <<>> /\ Head(s) = " " THEN LStrip(Tail(s)) ELSE s

RECURSIVE RStrip(_)
RStrip(s) == IF s # <<>> /\ s[Len(s)] = " " THEN RStrip(Take(s, Len(s) - 1)) ELSE s

Strip(s) == RStrip(LStrip(s))

RECURSIVE StripZeros(_)
StripZeros(ds) == IF ds # <<>> /\ Head(ds) = 0 THEN StripZeros(Tail(ds)) ELSE ds

RECURSIVE DigitsOf(_)
DigitsOf(s) ==
    IF s = <<>> THEN <<>>
    ELSE IF Head(s) = "_" THEN DigitsOf(Tail(s))
    ELSE <<DigitVal(Head(s))>> \o DigitsOf(Tail(s))

ValidDigits(b) ==
    /\ b # <<>>
    /\ IsDigit(b[1]) /\ IsDigit(b[Len(b)])
    /\ \A i \in 1..Len(b) : IsDigit(b[i]) \/ b[i] = "_"
    /\ \A i \in 1..(Len(b) - 1) : ~(b[i] = "_" /\ b[i + 1] = "_")

\* the slip of reading an invalid literal as 0 instead of raising
PyIntLenient(s) ==
    LET t == Strip(s)
        signed == t # <<>> /\ Head(t) \in {"+", "-"}
        b == IF signed THEN Tail(t) ELSE t
    IN  IF ValidDigits(b)
        THEN [ok |-> TRUE, neg |-> (signed /\ Head(t) = "-"), mag |-> StripZeros(DigitsOf(b))]
        ELSE [ok |-> TRUE, neg |-> FALSE, mag |-> <<>>]

\* the value is a sign and the decimal digits without leading zeros;
\* ok = FALSE stands for ValueError: invalid literal for int()
PyInt(s) ==
    LET t == Strip(s)
        signed == t # <<>> /\ Head(t) \in {"+", "-"}
        b == IF signed THEN Tail(t) ELSE t
    IN  IF ValidDigits(b)
        THEN [ok |-> TRUE, neg |-> (signed /\ Head(t) = "-"), mag |-> StripZeros(DigitsOf(b))]
        ELSE [ok |-> FALSE, neg |-> FALSE, mag |-> <<>>]

\* str(n) for a non-negative int
RECURSIVE PyStr(_)
PyStr(n) ==
    IF n < 10 THEN <<DigitChars[n + 1]>>
    ELSE PyStr(n \div 10) \o <<DigitChars[(n % 10) + 1]>>

(***************************************************************************)
(* entry['timestamp'].split('.')[0] and the division by 1000.              *)
(***************************************************************************)
Dot == <<".">>

TimestampPrefix(ts) == Split(ts, Dot)[1]

\* the slip of passing the milliseconds on as seconds
StmpSeconds(n) == [neg |-> n.neg /\ n.mag # <<>>, num |-> n.mag, den |-> 1]

\* int(...) / 1000: the float, kept exactly as the number num / den
Stmp(n) == [neg |-> n.neg /\ n.mag # <<>>, num |-> n.mag, den |-> 1000]

(***************************************************************************)
(* datetime.utcfromtimestamp: the instant as a day number since            *)
(* 1970-01-01 and a second of that day; years 1 to 9999 only.              *)
(***************************************************************************)
SecPerDay == 86400

MinDay == -719162

MaxDay == 2932896

\* long division of a digit sequence by d, given up once the quotient passes cap
RECURSIVE LongDiv(_, _, _, _, _)
LongDiv(ds, d, cap, q, r) ==
    IF ds = <<>> THEN [over |-> FALSE, q |-> q, r |-> r]
    ELSE LET r2 == r * 10 + Head(ds)
             q2 == q * 10 + (r2 \div d)
         IN  IF q2 > cap THEN [over |-> TRUE, q |-> cap, r |-> 0]
             ELSE LongDiv(Tail(ds), d, cap, q2, r2 % d)

\* ok = FALSE stands for the ValueError / OverflowError of a year outside 1..9999
utcfromtimestamp(t) ==
    LET unit == SecPerDay * t.den
        dv == LongDiv(t.num, unit, MaxDay + 1, 0, 0)
        days == IF ~t.neg THEN dv.q ELSE IF dv.r = 0 THEN 0 - dv.q ELSE 0 - dv.q - 1
        part == IF ~t.neg \/ dv.r = 0 THEN dv.r ELSE unit - dv.r
    IN  IF dv.over \/ days < MinDay \/ days > MaxDay
        THEN [ok |-> FALSE, days |-> 0, sod |-> 0]
        ELSE [ok |-> TRUE, days |-> days, sod |-> part \div t.den]

(***************************************************************************)
(* TimezoneFinder.timezone_at and pytz: the zones of the sample            *)
(* coordinates, with their UTC offsets in seconds.                         *)
(***************************************************************************)
Zurich == <<47, 8>>

Abidjan == <<5, -4>>

Delhi == <<28, 77>>

Phoenix == <<33, -112>>

Atlantic == <<0, -30>>

\* the slip of falling back to the closest zone where no zone holds the point
timezone_at_closest(la, lo) ==
    CASE <<la, lo>> = Zurich -> "Europe/Zurich"
      [] <<la, lo>> = Abidjan -> "Africa/Abidjan"
      [] <<la, lo>> = Delhi -> "Asia/Kolkata"
      [] <<la, lo>> = Phoenix -> "America/Phoenix"
      [] OTHER -> "Africa/Abidjan"

timezone_at(la, lo) ==
    CASE <<la, lo>> = Zurich -> "Europe/Zurich"
      [] <<la, lo>> = Abidjan -> "Africa/Abidjan"
      [] <<la, lo>> = Delhi -> "Asia/Kolkata"
      [] <<la, lo>> = Phoenix -> "America/Phoenix"
      [] OTHER -> None

\* Europe/Zurich summer time 2023 and 2024, from 01:00 UTC of the last Sunday of
\* March to 01:00 UTC of the last Sunday of October (day numbers since 1970-01-01)
ZurichSummer(days, sod) ==
    LET Within(a, b) == /\ (days > a \/ (days = a /\ sod >= 3600))
                        /\ (days < b \/ (days = b /\ sod < 3600))
    IN  Within(19442, 19659) \/ Within(19813, 20023)

\* the slip of a fixed offset per zone, summer time ignored
utcoffsetStandard(zone, days, sod) ==
    CASE zone = "Europe/Zurich" -> 3600
      [] zone = "Africa/Abidjan" -> 0
      [] zone = "Asia/Kolkata" -> 19800
      [] zone = "America/Phoenix" -> 0 - 25200

utcoffset(zone, days, sod) ==
    CASE zone = "Europe/Zurich" -> IF ZurichSummer(days, sod) THEN 7200 ELSE 3600
      [] zone = "Africa/Abidjan" -> 0
      [] zone = "Asia/Kolkata" -> 19800
      [] zone = "America/Phoenix" -> 0 - 25200

\* utc_time.astimezone(pytz.timezone(zone)); ok = FALSE stands for
\* the UnknownTimeZoneError of pytz.timezone(None) or a date out of range
astimezone(u, zone) ==
    IF zone = None THEN [ok |-> FALSE, days |-> 0, sod |-> 0]
    ELSE LET s == u.sod + utcoffset(zone, u.days, u.sod)
             d == u.days + (s \div SecPerDay)
         IN  IF d < MinDay \/ d > MaxDay THEN [ok |-> FALSE, days |-> 0, sod |-> 0]
             ELSE [ok |-> TRUE, days |-> d, sod |-> s % SecPerDay]

(***************************************************************************)
(* strftime('%Y-%m-%d %H:%M'): the civil date of a day number, and the     *)
(* zero-padded fields.                                                     *)
(***************************************************************************)
CivilDate(days) ==
    LET z == days + 719468
        era == z \div 146097
        doe == z - era * 146097
        yoe == (doe - (doe \div 1460) + (doe \div 36524) - (doe \div 146096)) \div 365
        doy == doe - (365 * yoe + (yoe \div 4) - (yoe \div 100))
        mp == (5 * doy + 2) \div 153
        d == doy - ((153 * mp + 2) \div 5) + 1
        m == IF mp < 10 THEN mp + 3 ELSE mp - 9
        y == yoe + era * 400 + (IF m <= 2 THEN 1 ELSE 0)
    IN  [year |-> y, month |-> m, day |-> d]

Pad(n, width) == Repeat("0", width - Len(PyStr(n))) \o PyStr(n)

strftime(t) ==
    LET c == CivilDate(t.days)
    IN  Pad(c.year, 4) \o <<"-">> \o Pad(c.month, 2) \o <<"-">> \o Pad(c.day, 2)
        \o <<" ">> \o Pad(t.sod \div 3600, 2) \o <<":">> \o Pad((t.sod % 3600) \div 60, 2)

(***************************************************************************)
(* generate_pdf: image names and the table of rows.                        *)
(***************************************************************************)
JpgExt == <<".", "J", "P", "G">>

\* the slip of padding to four digits
ImageNameShortPad(mission, i) ==
    LET zeros == Repeat("0", 4 - Len(PyStr(i)))
    IN  mission \o <<"_">> \o zeros \o PyStr(i) \o JpgExt

ImageName(mission, i) ==
    LET zeros == Repeat("0", 5 - Len(PyStr(i)))
    IN  mission \o <<"_">> \o zeros \o PyStr(i) \o JpgExt

HeaderRow ==
    <<<<"I", "M", "A", "G", "E", " ", "N", "A", "M", "E">>,
      <<"U", "T", "C", " ", "T", "I", "M", "E">>,
      <<"L", "O", "C", "A", "L", " ", "T", "I", "M", "E">>>>

Min(a, b) == IF a < b THEN a ELSE b

\* the slip of emitting the rows last entry first
Zip3Reversed(a, b, c) ==
    LET n == Min(Len(a), Min(Len(b), Len(c)))
    IN  [k \in 1..n |-> <<a[n + 1 - k], b[n + 1 - k], c[n + 1 - k]>>]

\* list(zip(a, b, c)): as long as the shortest of the three
Zip3(a, b, c) == [k \in 1..Min(Len(a), Min(Len(b), Len(c))) |-> <<a[k], b[k], c[k]>>]

TableData(a, b, c) == <<HeaderRow>> \o Zip3(a, b, c)

ReportSuffix ==
    <<" ", "D", "a", "t", "a", " ", "C", "o", "l", "l", "e", "c", "t", "i", "o", "n", " ", "R", "e", "p", "o", "r", "t", ".", "p", "d", "f">>

(***************************************************************************)
(* Uploaded files: a name and the parsed JSON document.                    *)
(***************************************************************************)
StampFrac == <<"1", "7", "0", "0", "0", "0", "0", "0", "0", "0", "0", "0", "0", ".", "1", "2", "3">>

StampPlain == <<"1", "7", "0", "0", "0", "0", "0", "0", "0", "0", "0", "0", "0">>

StampAbc == <<"a", "b", "c">>

StampEmpty == <<>>

StampNoPrefix == <<".", "5">>

StampBeforeSummer == <<"1", "7", "1", "1", "8", "4", "6", "7", "9", "9", "9", "9", "9">>

StampSummer == <<"1", "7", "1", "1", "8", "4", "6", "8", "0", "0", "0", "0", "0", ".", "5">>

StampYearEnd == <<"1", "7", "0", "4", "0", "6", "5", "3", "9", "9", "9", "9", "9", ".", "9">>

StampLeapDay == <<"1", "7", "0", "9", "2", "5", "1", "1", "9", "9", "9", "9", "9">>

StampZero == <<"0">>

StampNegative == <<"-", "1">>

StampMinute == <<"6", "0", "0", "0", "0">>

StampLastYear == <<"2", "5", "3", "4", "0", "2", "3", "0", "0", "7", "9", "9", "9", "9", "9">>

StampYear10000 == <<"2", "5", "3", "4", "0", "2", "3", "0", "0", "8", "0", "0", "0", "0", "0">>

StampBlanks == <<" ", "1", "_", "7", " ">>

StampPlus == <<"+", "1", "0", "0", "0">>

StampTwoDots == <<"1", ".", "2", ".", "3">>

StampLetter == <<"1", "2", "a", ".", "5">>

Stamps == {StampFrac, StampAbc, StampSummer, StampLastYear, StampYear10000}

Coords == {Zurich, Abidjan, Atlantic}

TimeStamps ==
    {StampFrac, StampPlain, StampAbc, StampEmpty, StampNoPrefix, StampBeforeSummer,
     StampSummer, StampYearEnd, StampLeapDay, StampZero, StampNegative, StampMinute,
     StampLastYear, StampYear10000, StampBlanks, StampPlus, StampTwoDots, StampLetter}

TimeCoords == {Zurich, Abidjan, Delhi, Phoenix, Atlantic}

Entry(c, t) == [coordinate |-> c, timestamp |-> t]

Entries(cs, ts) == {Entry(c, t) : c \in cs, t \in ts}

SeqsUpTo(S, n) == UNION {[1..k -> S] : k \in 0..n}

Flight(g) == [hasGeotag |-> TRUE, geotag |-> g]

FlightNoGeotag == [hasGeotag |-> FALSE, geotag |-> <<>>]

Record(fs) == [flights |-> fs]

Records(es, n) ==
    {Record(<<>>), Record(<<FlightNoGeotag>>)} \cup {Record(<<Flight(g)>>) : g \in SeqsUpTo(es, n)}

NameFlight == <<"M", " ", "F", "l", "i", "g", "h", "t", " ", "1", ".", "j", "s", "o", "n">>

NamePlain == <<"M", ".", "j", "s", "o", "n">>

TokM == <<"M">>

TokFl == <<" ", "F", "l">>

TokIght == <<"i", "g", "h", "t", " ">>

TokFlightSp == <<"F", "l", "i", "g", "h", "t", " ">>

Tokens == {TokM, FlightSep, JsonExt, TokFl, TokIght, TokFlightSp}

TokenNames == {Concat(ts) : ts \in SeqsUpTo(Tokens, MaxTokens)}

File(n, d) == [name |-> n, data |-> d]

Files == {File(n, d) : n \in {NameFlight, NamePlain}, d \in Records(Entries(Coords, Stamps), MaxEntries)}

TimeFiles == {File(NameFlight, Record(<<Flight(<<e>>)>>)) : e \in Entries(TimeCoords, TimeStamps)}

NameFiles == {File(n, Record(<<Flight(<<Entry(Zurich, StampFrac)>>)>>)) : n \in TokenNames}

SessionEntries == {Entry(Zurich, StampFrac), Entry(Abidjan, StampSummer), Entry(Atlantic, StampAbc)}

SessionFiles == {File(n, d) : n \in {NameFlight, NamePlain}, d \in Records(SessionEntries, MaxEntries)}

(***************************************************************************)
(* The script: one run per uploaded file.  pc is the position in the run,  *)
(* req the number of runs started, download and err what the page shows,   *)
(* it the position of the for loop of generate_pdf, lookups the number of  *)
(* timezone_at calls of the run.  The variables of a finished run keep     *)
(* their values until the next run assigns them.                           *)
(***************************************************************************)
NoError == [type |-> "none", line |-> 0]

NoDownload == [offered |-> FALSE, file_name |-> <<>>, data |-> <<>>]

Error(type, line) == [type |-> type, line |-> line]

Init ==
    /\ pc = "idle"
    /\ req = 0
    /\ uploaded_file = File(<<>>, Record(<<>>))
    /\ json_data = Record(<<>>)
    /\ filename = <<>>
    /\ parts = <<>>
    /\ mission_name = <<>>
    /\ lat = <<>>
    /\ lon = <<>>
    /\ tz_str = None
    /\ idx = 0
    /\ it = 0
    /\ img = <<>>
    /\ utc = <<>>
    /\ local = <<>>
    /\ stmp = Stmp([neg |-> FALSE, mag |-> <<>>])
    /\ table_data = <<>>
    /\ download = NoDownload
    /\ err = NoError
    /\ lookups = 0

\* the except clause: the error is shown and the run ends
Fail(e) ==
    /\ pc' = "failed"
    /\ err' = e

\* a file is uploaded and the script runs again, the page drawn anew
Upload(f, maxReq) ==
    /\ pc \in {"idle", "done", "failed"}
    /\ req < maxReq
    /\ req' = req + 1
    /\ uploaded_file' = f
    /\ download' = NoDownload
    /\ err' = NoError
    /\ lookups' = 0
    /\ pc' = "uploaded"
    /\ UNCHANGED <<json_data, filename, parts, mission_name, lat, lon, tz_str, idx, it,
                   img, utc, local, stmp, table_data>>

\* json.load and the mission name
Load ==
    /\ pc = "uploaded"
    /\ json_data' = uploaded_file.data
    /\ filename' = StripJson(uploaded_file.name)
    /\ parts' = FlightParts(filename')
    /\ mission_name' = MissionName(parts')
    /\ pc' = "preview"
    /\ UNCHANGED <<req, uploaded_file, lat, lon, tz_str, idx, it, img, utc, local, stmp,
                   table_data, download, err, lookups>>

\* the map preview: the coordinates of every entry, their extent and the zoom.
\* With no entry the extent is NaN, and the geodesic distance of get_zoom
\* raises or returns NaN, depending on the geopy version.
Preview ==
    /\ pc = "preview"
    /\ LET fs == json_data.flights
           g == fs[1].geotag
       IN  IF fs = <<>>
           THEN /\ Fail(Error("IndexError", 138))
                /\ lat' = <<>> /\ lon' = <<>>
           ELSE IF ~fs[1].hasGeotag
           THEN /\ Fail(Error("KeyError", 138))
                /\ lat' = <<>> /\ lon' = <<>>
           ELSE /\ lat' = [k \in 1..Len(g) |-> g[k].coordinate[1]]
                /\ lon' = [k \in 1..Len(g) |-> g[k].coordinate[2]]
                /\ IF g = <<>>
                   THEN \/ Fail(Error("ValueError", 155))
                        \/ pc' = "pdf" /\ err' = err
                   ELSE pc' = "pdf" /\ err' = err
    /\ UNCHANGED <<req, uploaded_file, json_data, filename, parts, mission_name, tz_str,
                   idx, it, img, utc, local, stmp, table_data, download, lookups>>

\* the slip of guarding the first-coordinate lookup: with no entry the zone is
\* left unset and the run goes on to an empty table
PdfInitLenient ==
    /\ pc = "pdf"
    /\ img' = <<>>
    /\ utc' = <<>>
    /\ local' = <<>>
    /\ LET g == json_data.flights[1].geotag
       IN  IF g = <<>>
           THEN /\ tz_str' = None
                /\ UNCHANGED lookups
           ELSE /\ tz_str' = timezone_at(g[1].coordinate[1], g[1].coordinate[2])
                /\ lookups' = lookups + 1
    /\ idx' = 2
    /\ it' = 1
    /\ pc' = "loop"
    /\ UNCHANGED <<req, uploaded_file, json_data, filename, parts, mission_name, lat, lon,
                   stmp, table_data, download, err>>

\* the slip of keeping the timezone of an earlier run instead of looking it up
PdfInitCached ==
    /\ pc = "pdf"
    /\ img' = <<>>
    /\ utc' = <<>>
    /\ local' = <<>>
    /\ LET g == json_data.flights[1].geotag
       IN  IF g = <<>>
           THEN /\ Fail(Error("IndexError", 46))
                /\ UNCHANGED <<tz_str, idx, it, lookups>>
           ELSE /\ IF tz_str = None
                   THEN /\ tz_str' = timezone_at(g[1].coordinate[1], g[1].coordinate[2])
                        /\ lookups' = lookups + 1
                   ELSE UNCHANGED <<tz_str, lookups>>
                /\ idx' = 2
                /\ it' = 1
                /\ pc' = "loop"
                /\ err' = err
    /\ UNCHANGED <<req, uploaded_file, json_data, filename, parts, mission_name, lat, lon,
                   stmp, table_data, download>>

\* generate_pdf up to its loop: the lists, the timezone of the first entry, idx
PdfInit ==
    /\ pc = "pdf"
    /\ img' = <<>>
    /\ utc' = <<>>
    /\ local' = <<>>
    /\ LET fs == json_data.flights
           g == fs[1].geotag
       IN  IF fs = <<>> \/ (fs # <<>> /\ fs[1].hasGeotag /\ g = <<>>)
           THEN /\ Fail(Error("IndexError", 46))
                /\ UNCHANGED <<tz_str, idx, it, lookups>>
           ELSE IF ~fs[1].hasGeotag
           THEN /\ Fail(Error("KeyError", 46))
                /\ UNCHANGED <<tz_str, idx, it, lookups>>
           ELSE /\ tz_str' = timezone_at(g[1].coordinate[1], g[1].coordinate[2])
                /\ lookups' = lookups + 1
                /\ idx' = 2
                /\ it' = 1
                /\ pc' = "loop"
                /\ err' = err
    /\ UNCHANGED <<req, uploaded_file, json_data, filename, parts, mission_name, lat, lon,
                   stmp, table_data, download>>

\* the slip of converting each entry in the zone of its own coordinate
LoopBodyOwnZone(entry, tz, mission, i) ==
    LET n == PyInt(TimestampPrefix(entry.timestamp))
        utc_time == utcfromtimestamp(Stmp(n))
        own == timezone_at(entry.coordinate[1], entry.coordinate[2])
    IN  [name |-> ImageName(mission, i),
         n |-> n,
         utc_time |-> utc_time,
         local_time |-> astimezone(utc_time, own)]

\* the body of the loop of generate_pdf for one entry: the image name, the
\* parsed timestamp and the two times
LoopBody(entry, tz, mission, i) ==
    LET n == PyInt(TimestampPrefix(entry.timestamp))
        utc_time == utcfromtimestamp(Stmp(n))
    IN  [name |-> ImageName(mission, i),
         n |-> n,
         utc_time |-> utc_time,
         local_time |-> astimezone(utc_time, tz)]

\* one pass of the loop of generate_pdf
PdfEntry ==
    /\ pc = "loop"
    /\ it <= Len(json_data.flights[1].geotag)
    /\ LET b == LoopBody(json_data.flights[1].geotag[it], tz_str, mission_name, idx)
       IN  /\ img' = Append(img, b.name)
           /\ IF ~b.n.ok
              THEN /\ Fail(Error("ValueError", 56))
                   /\ UNCHANGED <<stmp, utc, local, idx, it>>
              ELSE /\ stmp' = Stmp(b.n)
                   /\ IF ~b.utc_time.ok
                      THEN /\ Fail(Error("ValueError", 57))
                           /\ UNCHANGED <<utc, local, idx, it>>
                      ELSE IF tz_str = None
                      THEN /\ Fail(Error("UnknownTimeZoneError", 58))
                           /\ UNCHANGED <<utc, local, idx, it>>
                      ELSE IF ~b.local_time.ok
                      THEN /\ Fail(Error("OverflowError", 58))
                           /\ UNCHANGED <<utc, local, idx, it>>
                      ELSE /\ utc' = Append(utc, strftime(b.utc_time))
                           /\ local' = Append(local, strftime(b.local_time))
                           /\ idx' = idx + 1
                           /\ it' = it + 1
                           /\ UNCHANGED <<pc, err>>
    /\ UNCHANGED <<req, uploaded_file, json_data, filename, parts, mission_name, lat, lon,
                   tz_str, table_data, download, lookups>>

\* the rest of generate_pdf: the table and the document
PdfBuild ==
    /\ pc = "loop"
    /\ it > Len(json_data.flights[1].geotag)
    /\ table_data' = TableData(img, utc, local)
    /\ pc' = "built"
    /\ UNCHANGED <<req, uploaded_file, json_data, filename, parts, mission_name, lat, lon,
                   tz_str, idx, it, img, utc, local, stmp, download, err, lookups>>

\* the success message and the download button
Offer ==
    /\ pc = "built"
    /\ download' = [offered |-> TRUE, file_name |-> mission_name \o ReportSuffix,
                    data |-> table_data]
    /\ pc' = "done"
    /\ UNCHANGED <<req, uploaded_file, json_data, filename, parts, mission_name, lat, lon,
                   tz_str, idx, it, img, utc, local, stmp, table_data, err, lookups>>

\* one run, over flight records of up to MaxEntries entries
Next ==
    \/ \E f \in Files : Upload(f, 1)
    \/ Load
    \/ Preview
    \/ PdfInit
    \/ PdfEntry
    \/ PdfBuild
    \/ Offer

Spec == Init /\ [][Next]_vars

\* one run, over single entries of every sample timestamp and coordinate
NextTime ==
    \/ \E f \in TimeFiles : Upload(f, 1)
    \/ Load
    \/ Preview
    \/ PdfInit
    \/ PdfEntry
    \/ PdfBuild
    \/ Offer

SpecTime == Init /\ [][NextTime]_vars

\* one run, over file names made of up to MaxTokens tokens
NextName ==
    \/ \E f \in NameFiles : Upload(f, 1)
    \/ Load
    \/ Preview
    \/ PdfInit
    \/ PdfEntry
    \/ PdfBuild
    \/ Offer

SpecName == Init /\ [][NextName]_vars

\* up to MaxRequests runs, one after the other
NextSession ==
    \/ \E f \in SessionFiles : Upload(f, MaxRequests)
    \/ Load
    \/ Preview
    \/ PdfInit
    \/ PdfEntry
    \/ PdfBuild
    \/ Offer

SpecSession == Init /\ [][NextSession]_vars

(***************************************************************************)
(* What CPython 3.11 (datetime with the IANA zones) prints for the sample  *)
(* timestamps: the UTC string, and the local string in each sample zone.   *)
(* <<>> where no row is produced.                                          *)
(***************************************************************************)
UtcOracle(ts) ==
    CASE ts = StampFrac -> <<"2", "0", "2", "3", "-", "1", "1", "-", "1", "4", " ", "2", "2", ":", "1", "3">>
      [] ts = StampPlain -> <<"2", "0", "2", "3", "-", "1", "1", "-", "1", "4", " ", "2", "2", ":", "1", "3">>
      [] ts = StampBeforeSummer -> <<"2", "0", "2", "4", "-", "0", "3", "-", "3", "1", " ", "0", "0", ":", "5", "9">>
      [] ts = StampSummer -> <<"2", "0", "2", "4", "-", "0", "3", "-", "3", "1", " ", "0", "1", ":", "0", "0">>
      [] ts = StampYearEnd -> <<"2", "0", "2", "3", "-", "1", "2", "-", "3", "1", " ", "2", "3", ":", "2", "9">>
      [] ts = StampLeapDay -> <<"2", "0", "2", "4", "-", "0", "2", "-", "2", "9", " ", "2", "3", ":", "5", "9">>
      [] ts = StampZero -> <<"1", "9", "7", "0", "-", "0", "1", "-", "0", "1", " ", "0", "0", ":", "0", "0">>
      [] ts = StampNegative -> <<"1", "9", "6", "9", "-", "1", "2", "-", "3", "1", " ", "2", "3", ":", "5", "9">>
      [] ts = StampMinute -> <<"1", "9", "7", "0", "-", "0", "1", "-", "0", "1", " ", "0", "0", ":", "0", "1">>
      [] ts = StampLastYear -> <<"9", "9", "9", "9", "-", "1", "2", "-", "3", "1", " ", "2", "3", ":", "5", "9">>
      [] ts = StampBlanks -> <<"1", "9", "7", "0", "-", "0", "1", "-", "0", "1", " ", "0", "0", ":", "0", "0">>
      [] ts = StampPlus -> <<"1", "9", "7", "0", "-", "0", "1", "-", "0", "1", " ", "0", "0", ":", "0", "0">>
      [] ts = StampTwoDots -> <<"1", "9", "7", "0", "-", "0", "1", "-", "0", "1", " ", "0", "0", ":", "0", "0">>
      [] OTHER -> <<>>

LocalOracle(ts, zone) ==
    CASE ts = StampFrac /\ zone = "Europe/Zurich" -> <<"2", "0", "2", "3", "-", "1", "1", "-", "1", "4", " ", "2", "3", ":", "1", "3">>
      [] ts = StampFrac /\ zone = "Africa/Abidjan" -> <<"2", "0", "2", "3", "-", "1", "1", "-", "1", "4", " ", "2", "2", ":", "1", "3">>
      [] ts = StampFrac /\ zone = "Asia/Kolkata" -> <<"2", "0", "2", "3", "-", "1", "1", "-", "1", "5", " ", "0", "3", ":", "4", "3">>
      [] ts = StampFrac /\ zone = "America/Phoenix" -> <<"2", "0", "2", "3", "-", "1", "1", "-", "1", "4", " ", "1", "5", ":", "1", "3">>
      [] ts = StampPlain /\ zone = "Europe/Zurich" -> <<"2", "0", "2", "3", "-", "1", "1", "-", "1", "4", " ", "2", "3", ":", "1", "3">>
      [] ts = StampPlain /\ zone = "Africa/Abidjan" -> <<"2", "0", "2", "3", "-", "1", "1", "-", "1", "4", " ", "2", "2", ":", "1", "3">>
      [] ts = StampPlain /\ zone = "Asia/Kolkata" -> <<"2", "0", "2", "3", "-", "1", "1", "-", "1", "5", " ", "0", "3", ":", "4", "3">>
      [] ts = StampPlain /\ zone = "America/Phoenix" -> <<"2", "0", "2", "3", "-", "1", "1", "-", "1", "4", " ", "1", "5", ":", "1", "3">>
      [] ts = StampBeforeSummer /\ zone = "Europe/Zurich" -> <<"2", "0", "2", "4", "-", "0", "3", "-", "3", "1", " ", "0", "1", ":", "5", "9">>
      [] ts = StampBeforeSummer /\ zone = "Africa/Abidjan" -> <<"2", "0", "2", "4", "-", "0", "3", "-", "3", "1", " ", "0", "0", ":", "5", "9">>
      [] ts = StampBeforeSummer /\ zone = "Asia/Kolkata" -> <<"2", "0", "2", "4", "-", "0", "3", "-", "3", "1", " ", "0", "6", ":", "2", "9">>
      [] ts = StampBeforeSummer /\ zone = "America/Phoenix" -> <<"2", "0", "2", "4", "-", "0", "3", "-", "3", "0", " ", "1", "7", ":", "5", "9">>
      [] ts = StampSummer /\ zone = "Europe/Zurich" -> <<"2", "0", "2", "4", "-", "0", "3", "-", "3", "1", " ", "0", "3", ":", "0", "0">>
      [] ts = StampSummer /\ zone = "Africa/Abidjan" -> <<"2", "0", "2", "4", "-", "0", "3", "-", "3", "1", " ", "0", "1", ":", "0", "0">>
      [] ts = StampSummer /\ zone = "Asia/Kolkata" -> <<"2", "0", "2", "4", "-", "0", "3", "-", "3", "1", " ", "0", "6", ":", "3", "0">>
      [] ts = StampSummer /\ zone = "America/Phoenix" -> <<"2", "0", "2", "4", "-", "0", "3", "-", "3", "0", " ", "1", "8", ":", "0", "0">>
      [] ts = StampYearEnd /\ zone = "Europe/Zurich" -> <<"2", "0", "2", "4", "-", "0", "1", "-", "0", "1", " ", "0", "0", ":", "2", "9">>
      [] ts = StampYearEnd /\ zone = "Africa/Abidjan" -> <<"2", "0", "2", "3", "-", "1", "2", "-", "3", "1", " ", "2", "3", ":", "2", "9">>
      [] ts = StampYearEnd /\ zone = "Asia/Kolkata" -> <<"2", "0", "2", "4", "-", "0", "1", "-", "0", "1", " ", "0", "4", ":", "5", "9">>
      [] ts = StampYearEnd /\ zone = "America/Phoenix" -> <<"2", "0", "2", "3", "-", "1", "2", "-", "3", "1", " ", "1", "6", ":", "2", "9">>
      [] ts = StampLeapDay /\ zone = "Europe/Zurich" -> <<"2", "0", "2", "4", "-", "0", "3", "-", "0", "1", " ", "0", "0", ":", "5", "9">>
      [] ts = StampLeapDay /\ zone = "Africa/Abidjan" -> <<"2", "0", "2", "4", "-", "0", "2", "-", "2", "9", " ", "2", "3", ":", "5", "9">>
      [] ts = StampLeapDay /\ zone = "Asia/Kolkata" -> <<"2", "0", "2", "4", "-", "0", "3", "-", "0", "1", " ", "0", "5", ":", "2", "9">>
      [] ts = StampLeapDay /\ zone = "America/Phoenix" -> <<"2", "0", "2", "4", "-", "0", "2", "-", "2", "9", " ", "1", "6", ":", "5", "9">>
      [] ts = StampZero /\ zone = "Europe/Zurich" -> <<"1", "9", "7", "0", "-", "0", "1", "-", "0", "1", " ", "0", "1", ":", "0", "0">>
      [] ts = StampZero /\ zone = "Africa/Abidjan" -> <<"1", "9", "7", "0", "-", "0", "1", "-", "0", "1", " ", "0", "0", ":", "0", "0">>
      [] ts = StampZero /\ zone = "Asia/Kolkata" -> <<"1", "9", "7", "0", "-", "0", "1", "-", "0", "1", " ", "0", "5", ":", "3", "0">>
      [] ts = StampZero /\ zone = "America/Phoenix" -> <<"1", "9", "6", "9", "-", "1", "2", "-", "3", "1", " ", "1", "7", ":", "0", "0">>
      [] ts = StampNegative /\ zone = "Europe/Zurich" -> <<"1", "9", "7", "0", "-", "0", "1", "-", "0", "1", " ", "0", "0", ":", "5", "9">>
      [] ts = StampNegative /\ zone = "Africa/Abidjan" -> <<"1", "9", "6", "9", "-", "1", "2", "-", "3", "1", " ", "2", "3", ":", "5", "9">>
      [] ts = StampNegative /\ zone = "Asia/Kolkata" -> <<"1", "9", "7", "0", "-", "0", "1", "-", "0", "1", " ", "0", "5", ":", "2", "9">>
      [] ts = StampNegative /\ zone = "America/Phoenix" -> <<"1", "9", "6", "9", "-", "1", "2", "-", "3", "1", " ", "1", "6", ":", "5", "9">>
      [] ts = StampMinute /\ zone = "Europe/Zurich" -> <<"1", "9", "7", "0", "-", "0", "1", "-", "0", "1", " ", "0", "1", ":", "0", "1">>
      [] ts = StampMinute /\ zone = "Africa/Abidjan" -> <<"1", "9", "7", "0", "-", "0", "1", "-", "0", "1", " ", "0", "0", ":", "0", "1">>
      [] ts = StampMinute /\ zone = "Asia/Kolkata" -> <<"1", "9", "7", "0", "-", "0", "1", "-", "0", "1", " ", "0", "5", ":", "3", "1">>
      [] ts = StampMinute /\ zone = "America/Phoenix" -> <<"1", "9", "6", "9", "-", "1", "2", "-", "3", "1", " ", "1", "7", ":", "0", "1">>
      [] ts = StampLastYear /\ zone = "Africa/Abidjan" -> <<"9", "9", "9", "9", "-", "1", "2", "-", "3", "1", " ", "2", "3", ":", "5", "9">>
      [] ts = StampLastYear /\ zone = "America/Phoenix" -> <<"9", "9", "9", "9", "-", "1", "2", "-", "3", "1", " ", "1", "6", ":", "5", "9">>
      [] ts = StampBlanks /\ zone = "Europe/Zurich" -> <<"1", "9", "7", "0", "-", "0", "1", "-", "0", "1", " ", "0", "1", ":", "0", "0">>
      [] ts = StampBlanks /\ zone = "Africa/Abidjan" -> <<"1", "9", "7", "0", "-", "0", "1", "-", "0", "1", " ", "0", "0", ":", "0", "0">>
      [] ts = StampBlanks /\ zone = "Asia/Kolkata" -> <<"1", "9", "7", "0", "-", "0", "1", "-", "0", "1", " ", "0", "5", ":", "3", "0">>
      [] ts = StampBlanks /\ zone = "America/Phoenix" -> <<"1", "9", "6", "9", "-", "1", "2", "-", "3", "1", " ", "1", "7", ":", "0", "0">>
      [] ts = StampPlus /\ zone = "Europe/Zurich" -> <<"1", "9", "7", "0", "-", "0", "1", "-", "0", "1", " ", "0", "1", ":", "0", "0">>
      [] ts = StampPlus /\ zone = "Africa/Abidjan" -> <<"1", "9", "7", "0", "-", "0", "1", "-", "0", "1", " ", "0", "0", ":", "0", "0">>
      [] ts = StampPlus /\ zone = "Asia/Kolkata" -> <<"1", "9", "7", "0", "-", "0", "1", "-", "0", "1", " ", "0", "5", ":", "3", "0">>
      [] ts = StampPlus /\ zone = "America/Phoenix" -> <<"1", "9", "6", "9", "-", "1", "2", "-", "3", "1", " ", "1", "7", ":", "0", "0">>
      [] ts = StampTwoDots /\ zone = "Europe/Zurich" -> <<"1", "9", "7", "0", "-", "0", "1", "-", "0", "1", " ", "0", "1", ":", "0", "0">>
      [] ts = StampTwoDots /\ zone = "Africa/Abidjan" -> <<"1", "9", "7", "0", "-", "0", "1", "-", "0", "1", " ", "0", "0", ":", "0", "0">>
      [] ts = StampTwoDots /\ zone = "Asia/Kolkata" -> <<"1", "9", "7", "0", "-", "0", "1", "-", "0", "1", " ", "0", "5", ":", "3", "0">>
      [] ts = StampTwoDots /\ zone = "America/Phoenix" -> <<"1", "9", "6", "9", "-", "1", "2", "-", "3", "1", " ", "1", "7", ":", "0", "0">>
      [] OTHER -> <<>>

(***************************************************************************)
(* Vocabulary of the properties.                                           *)
(***************************************************************************)
\* the zone timezonefinder gives for each sample coordinate
ZoneOracle(c) ==
    CASE c = Zurich -> "Europe/Zurich"
      [] c = Abidjan -> "Africa/Abidjan"
      [] c = Delhi -> "Asia/Kolkata"
      [] c = Phoenix -> "America/Phoenix"
      [] c = Atlantic -> None

\* the sample timestamps whose prefix int() rejects
Unparseable == {StampAbc, StampEmpty, StampNoPrefix, StampLetter}

HasEntries(d) ==
    /\ d.flights # <<>>
    /\ d.flights[1].hasGeotag
    /\ d.flights[1].geotag # <<>>

Geotag == json_data.flights[1].geotag

FirstZone == ZoneOracle(Geotag[1].coordinate)

Ended == pc \in {"done", "failed"}

NothingEmitted == table_data = <<>> /\ download = NoDownload

\* the errors of the script, in the words of the design
TimestampParseError == Error("ValueError", 56)

TimezoneResolutionError == Error("UnknownTimeZoneError", 58)

OutOfRangeErrors == {Error("ValueError", 57), Error("OverflowError", 58)}

\* the row CPython prints for entry k, under the zone of the first coordinate
RowOracle(k) ==
    <<img[k], UtcOracle(Geotag[k].timestamp), LocalOracle(Geotag[k].timestamp, FirstZone)>>

\* entry k decodes to an instant datetime can hold, in UTC and in the zone
Representable(k, zone) == zone # None /\ LocalOracle(Geotag[k].timestamp, zone) # <<>>

(***************************************************************************)
(* C1: one row per geotag entry, in input order.                           *)
(***************************************************************************)
ValidRecord ==
    /\ HasEntries(json_data)
    /\ \A k \in 1..Len(Geotag) : Geotag[k].timestamp \notin Unparseable
    /\ FirstZone # None

OneRowPerEntry ==
    /\ Len(table_data) = Len(Geotag) + 1
    /\ table_data[1] = HeaderRow
    /\ \A k \in 1..Len(Geotag) : table_data[k + 1] = RowOracle(k)

\* C1 as stated: every record with a non-empty geotag sequence, parseable
\* timestamps and a resolvable first coordinate ends with one row per entry, the
\* k-th row that of the k-th entry.
C1_Original ==
    (Ended /\ ValidRecord) => (pc = "done" /\ OneRowPerEntry)

\* C1 amended: the same for the records whose timestamps also decode to
\* instants datetime can represent (years 1 to 9999) in UTC and in the zone of
\* the first coordinate: the run ends with one row per entry, the k-th row that of
\* the k-th entry.
C1_OneRowPerEntry ==
    /\ (Ended /\ ValidRecord /\ \A k \in 1..Len(Geotag) : Representable(k, FirstZone))
          => pc = "done"
    /\ pc \in {"built", "done"} => (ValidRecord /\ OneRowPerEntry)

C1_Witness ==
    /\ pc = "done"
    /\ Len(Geotag) = 2
    /\ Geotag[1].timestamp = StampSummer
    /\ Geotag[2].timestamp = StampFrac
    /\ Len(table_data) = 3
    /\ table_data[2][2] # table_data[3][2]

(***************************************************************************)
(* C2: image names carry the numbers 2, 3, 4, ... padded to five digits.   *)
(***************************************************************************)
RECURSIVE DecValue(_)
DecValue(s) == IF s = <<>> THEN 0 ELSE 10 * DecValue(Take(s, Len(s) - 1)) + DigitVal(s[Len(s)])

\* C2: the k-th image name (k from 1) is the mission name, '_', the numeral of
\* k + 1 zero-padded to five digits, and '.JPG'; the rows carry these names in order.
C2_ImageNames ==
    /\ \A k \in 1..Len(img) :
          LET m == Len(mission_name)
              suffix == SubSeq(img[k], m + 2, m + 6)
          IN  /\ Len(img[k]) = m + 10
              /\ Take(img[k], m) = mission_name
              /\ img[k][m + 1] = "_"
              /\ \A j \in 1..5 : IsDigit(suffix[j])
              /\ DecValue(suffix) = k + 1
              /\ Drop(img[k], m + 6) = JpgExt
    /\ pc \in {"built", "done"} =>
          /\ Len(img) = Len(Geotag)
          /\ \A k \in 1..Len(img) : table_data[k + 1][1] = img[k]

C2_Witness ==
    /\ pc = "done"
    /\ Len(img) >= 2
    /\ mission_name = <<"M", "_", "F", "l", "i", "g", "h", "t", "_", "1">>
    /\ table_data[3][1] = mission_name \o <<"_", "0", "0", "0", "0", "3", ".", "J", "P", "G">>

(***************************************************************************)
(* C3: the timezone is looked up once, from the first coordinate.          *)
(***************************************************************************)
\* C3: one timezone lookup per run, of the first entry's coordinate, and the
\* local time of every row is that of its own timestamp in that zone, whatever
\* the coordinate of the row's entry.
C3_FirstZoneOnly ==
    /\ lookups <= 1
    /\ pc \in {"loop", "built", "done"} => (lookups = 1 /\ tz_str = FirstZone)
    /\ \A k \in 1..Len(local) :
          local[k] = LocalOracle(Geotag[k].timestamp, FirstZone)

C3_Witness ==
    /\ pc = "done"
    /\ Len(Geotag) = 2
    /\ Geotag[1].coordinate = Zurich
    /\ Geotag[2].coordinate = Abidjan
    /\ local[2] # utc[2]

(***************************************************************************)
(* C4: an unparseable timestamp fails the whole run.                       *)
(***************************************************************************)
HasUnparseable ==
    /\ HasEntries(json_data)
    /\ \E k \in 1..Len(Geotag) : Geotag[k].timestamp \in Unparseable

FirstUnparseable ==
    CHOOSE k \in 1..Len(Geotag) :
        /\ Geotag[k].timestamp \in Unparseable
        /\ \A j \in 1..(k - 1) : Geotag[j].timestamp \notin Unparseable

\* C4 as stated: an unparseable timestamp at any position makes the run fail
\* with the timestamp parse error, with no row and no report.
C4_Original ==
    (Ended /\ HasUnparseable) =>
        (pc = "failed" /\ err = TimestampParseError /\ NothingEmitted)

\* C4 amended: an unparseable timestamp at any position k makes the run fail
\* with no row and no report, the loop never passing entry k; the error is the
\* timestamp parse error when every entry before k decodes to a representable
\* instant in the zone of the first coordinate (always so for k the first entry),
\* and otherwise the error of the earlier entry that could not be converted: the
\* unknown timezone or the instant out of range.
C4_UnparseableFails ==
    (Ended /\ HasUnparseable) =>
        /\ pc = "failed"
        /\ NothingEmitted
        /\ Len(img) <= FirstUnparseable
        /\ Len(utc) < FirstUnparseable
        /\ IF \A j \in 1..(FirstUnparseable - 1) : Representable(j, FirstZone)
           THEN err = TimestampParseError /\ Len(img) = FirstUnparseable
           ELSE err \in OutOfRangeErrors \cup {TimezoneResolutionError}

C4_Witness ==
    /\ pc = "failed"
    /\ HasEntries(json_data)
    /\ Len(Geotag) = 2
    /\ Geotag[1].timestamp = StampFrac
    /\ Geotag[2].timestamp = StampAbc
    /\ err = TimestampParseError
    /\ Len(utc) = 1
    /\ NothingEmitted

(***************************************************************************)
(* C5: a record without geotag entries fails the run.                      *)
(***************************************************************************)
\* C5: with an empty flights list, a first flight without geotag key or an
\* empty geotag sequence the run never reaches the loop of generate_pdf, emits no
\* row and no report, and fails with the error of reading the missing part.
C5_MalformedInput ==
    (pc \notin {"idle", "uploaded"} /\ ~HasEntries(json_data)) =>
        /\ pc \in {"preview", "pdf", "failed"}
        /\ NothingEmitted
        /\ img = <<>>
        /\ pc = "failed" =>
              IF json_data.flights = <<>> THEN err = Error("IndexError", 138)
              ELSE IF ~json_data.flights[1].hasGeotag THEN err = Error("KeyError", 138)
              ELSE err \in {Error("ValueError", 155), Error("IndexError", 46)}

C5_Witness ==
    /\ pc = "failed"
    /\ json_data.flights # <<>>
    /\ json_data.flights[1].hasGeotag
    /\ json_data.flights[1].geotag = <<>>
    /\ err = Error("IndexError", 46)
    /\ NothingEmitted

(***************************************************************************)
(* C6: a first coordinate in no timezone fails the run.                    *)
(***************************************************************************)
NoZone == HasEntries(json_data) /\ FirstZone = None

\* C6 as stated: a first coordinate in no timezone makes the run fail with
\* the timezone resolution error and no row, whatever the entries contain.
C6_Original ==
    (Ended /\ NoZone) =>
        (pc = "failed" /\ err = TimezoneResolutionError /\ NothingEmitted)

\* C6 amended: a first coordinate in no timezone makes the run fail at the
\* first entry, with no local time formatted, no row and no report, whatever the
\* entries contain; the lookup itself returns no zone without failing, and the
\* error is the timezone error of the first local-time conversion when the first
\* entry's timestamp decodes, and otherwise the error of that timestamp.
C6_NoZoneFails ==
    /\ (Ended /\ NoZone) =>
          /\ pc = "failed"
          /\ NothingEmitted
          /\ utc = <<>> /\ local = <<>>
          /\ Len(img) = 1
          /\ IF Geotag[1].timestamp \in Unparseable THEN err = TimestampParseError
             ELSE IF UtcOracle(Geotag[1].timestamp) = <<>> THEN err = Error("ValueError", 57)
             ELSE err = TimezoneResolutionError
    /\ (pc = "loop" /\ NoZone) => (tz_str = None /\ it = 1)

C6_Witness ==
    /\ pc = "failed"
    /\ HasEntries(json_data)
    /\ Len(Geotag) = 2
    /\ Geotag[1] = Entry(Atlantic, StampFrac)
    /\ Geotag[2] = Entry(Zurich, StampSummer)
    /\ err = TimezoneResolutionError
    /\ NothingEmitted

(***************************************************************************)
(* C7: the timestamp is cut at the first '.', read as milliseconds.        *)
(***************************************************************************)
\* C7: the digits before the first '.' are read as milliseconds since the
\* epoch and divided by 1000, and the UTC time shown is the minute of that instant,
\* as CPython prints it; "1700000000000.123" is the instant of 1700000000 seconds,
\* shown as 2023-11-14 22:13.
C7_Decode ==
    (HasEntries(json_data) /\ Len(img) = 1 /\ pc \in {"loop", "built", "done", "failed"}) =>
        LET ts == Geotag[1].timestamp
        IN  IF ts \in Unparseable THEN err = TimestampParseError
            ELSE /\ stmp.den = 1000
                 /\ IF UtcOracle(ts) = <<>> THEN err = Error("ValueError", 57)
                    ELSE IF pc = "failed" THEN err.line = 58
                    ELSE utc = <<UtcOracle(ts)>>
                 /\ ts \in {StampFrac, StampPlain} =>
                       /\ stmp.num = <<1, 7, 0, 0, 0, 0, 0, 0, 0, 0, 0, 0, 0>>
                       /\ ~stmp.neg
                       /\ utcfromtimestamp(stmp).days * SecPerDay
                            + utcfromtimestamp(stmp).sod = 1700000000
                 /\ ts = StampTwoDots => stmp.num = <<1>>

C7_Witness ==
    /\ pc = "done"
    /\ Geotag[1].timestamp = StampFrac
    /\ utc = <<<<"2", "0", "2", "3", "-", "1", "1", "-", "1", "4", " ", "2", "2", ":", "1", "3">>>>

(***************************************************************************)
(* C8: both times are printed as YYYY-MM-DD HH:MM.                         *)
(***************************************************************************)
Pattern(s) ==
    /\ Len(s) = 16
    /\ \A j \in {1, 2, 3, 4, 6, 7, 9, 10, 12, 13, 15, 16} : IsDigit(s[j])
    /\ s[5] = "-" /\ s[8] = "-" /\ s[11] = " " /\ s[14] = ":"
    /\ DecValue(SubSeq(s, 6, 7)) \in 1..12
    /\ DecValue(SubSeq(s, 9, 10)) \in 1..31
    /\ DecValue(SubSeq(s, 12, 13)) \in 0..23
    /\ DecValue(SubSeq(s, 15, 16)) \in 0..59

\* C8: the UTC and the local time of every row have the form YYYY-MM-DD HH:MM,
\* the local time is what CPython prints for the instant in the zone of the first
\* coordinate (its offset at that instant), and in a zone of offset 0 the two are equal.
C8_Format ==
    /\ Len(utc) = Len(local)
    /\ \A k \in 1..Len(local) :
          /\ Pattern(utc[k])
          /\ Pattern(local[k])
          /\ utc[k] = UtcOracle(Geotag[k].timestamp)
          /\ local[k] = LocalOracle(Geotag[k].timestamp, FirstZone)
          /\ FirstZone = "Africa/Abidjan" => utc[k] = local[k]

C8_Witness ==
    /\ pc = "done"
    /\ Geotag[1] = Entry(Zurich, StampSummer)
    /\ table_data[2][3] = <<"2", "0", "2", "4", "-", "0", "3", "-", "3", "1", " ", "0", "3", ":", "0", "0">>

(***************************************************************************)
(* C9: a run depends on its own file only.                                 *)
(***************************************************************************)
FreshMission == MissionName(FlightParts(StripJson(uploaded_file.name)))

\* the rows of the uploaded file alone, as CPython prints them
FreshRows ==
    LET g == uploaded_file.data.flights[1].geotag
        zone == ZoneOracle(g[1].coordinate)
    IN  [k \in 1..Len(g) |->
            <<ImageName(FreshMission, k + 1), UtcOracle(g[k].timestamp),
              LocalOracle(g[k].timestamp, zone)>>]

FreshSucceeds ==
    LET d == uploaded_file.data
    IN  /\ HasEntries(d)
        /\ ZoneOracle(d.flights[1].geotag[1].coordinate) # None
        /\ \A k \in 1..Len(d.flights[1].geotag) :
              LocalOracle(d.flights[1].geotag[k].timestamp,
                          ZoneOracle(d.flights[1].geotag[1].coordinate)) # <<>>

\* C9: whatever runs came before, a run reads the uploaded record without
\* changing it, numbers its images from 2, succeeds exactly when its own file can
\* be converted, and offers exactly the rows of its own file and mission name.
C9_Stateless ==
    /\ pc \notin {"idle", "uploaded"} => json_data = uploaded_file.data
    /\ pc = "loop" => (idx = it + 1 /\ Len(img) = it - 1 /\ Len(local) = it - 1)
    /\ Ended => (pc = "done" <=> FreshSucceeds)
    /\ pc = "done" =>
          /\ download.data = <<HeaderRow>> \o FreshRows
          /\ download.file_name = FreshMission \o ReportSuffix
    /\ pc # "done" => download = NoDownload

\* a second run has formatted its first row while the table of the first run,
\* with another first row, is still in memory
C9_Witness ==
    /\ req = 2
    /\ pc = "loop"
    /\ it = 2
    /\ Len(table_data) >= 2
    /\ table_data[2] # <<img[1], utc[1], local[1]>>
    /\ table_data[2][3] # local[1]

(***************************************************************************)
(* C10: the mission name from the file name.                               *)
(***************************************************************************)
SepAt(s, i) == i + Len(FlightSep) - 1 <= Len(s) /\ SubSeq(s, i, i + Len(FlightSep) - 1) = FlightSep

\* the first position from i on where the separator starts, 0 if none
NextSep(s, i) ==
    IF \E j \in i..Len(s) : SepAt(s, j)
    THEN CHOOSE j \in i..Len(s) : SepAt(s, j) /\ \A h \in i..(j - 1) : ~SepAt(s, h)
    ELSE 0

ExpectedMission(s) ==
    LET first == NextSep(s, 1)
        second == IF first = 0 THEN 0 ELSE NextSep(s, first + Len(FlightSep))
    IN  IF first = 0 THEN s
        ELSE IF second = 0
        THEN Take(s, first - 1) \o FlightJoin \o Drop(s, first + Len(FlightSep) - 1)
        ELSE Take(s, first - 1)

\* no '.json' is left of those of the uploaded name, read from the left
RECURSIVE WithoutJson(_, _)
WithoutJson(s, i) ==
    IF i > Len(s) THEN <<>>
    ELSE IF i + 4 <= Len(s) /\ SubSeq(s, i, i + 4) = JsonExt THEN WithoutJson(s, i + 5)
    ELSE <<s[i]>> \o WithoutJson(s, i + 1)

\* C10: the mission name is the file name without its '.json' occurrences,
\* with ' Flight ' replaced by '_Flight_' when it occurs exactly once, and cut
\* before the first ' Flight ' when it occurs more often; image names and the
\* download name are built from it.
C10_MissionName ==
    pc \notin {"idle", "uploaded"} =>
        /\ filename = WithoutJson(uploaded_file.name, 1)
        /\ mission_name = ExpectedMission(filename)
        /\ uploaded_file.name = TokM \o FlightSep \o TokM \o JsonExt
              => mission_name = <<"M", "_", "F", "l", "i", "g", "h", "t", "_", "M">>
        /\ uploaded_file.name = TokFl \o JsonExt \o TokIght \o JsonExt
              => mission_name = FlightJoin
        /\ uploaded_file.name = TokM \o FlightSep \o FlightSep \o TokM
              => mission_name = TokM
        /\ uploaded_file.name = FlightSep \o TokFlightSp \o TokM
              => mission_name = FlightJoin \o TokFlightSp \o TokM
        /\ \A k \in 1..Len(img) : Take(img[k], Len(img[k]) - 10) = mission_name
        /\ pc = "done" => download.file_name = mission_name \o ReportSuffix

C10_Witness ==
    /\ pc = "done"
    /\ uploaded_file.name = TokM \o FlightSep \o FlightSep \o TokM
    /\ Len(parts) = 3
    /\ mission_name = TokM
    /\ download.file_name = TokM \o ReportSuffix

====
